---- MODULE Spec2Model ----
(***************************************************************************)
(* Model of the image reconstruction engine (imageProcessing): the region  *)
(* eraser smartInpaint, the text layout engine drawAdaptiveText and the    *)
(* pipeline processCanvas, together with the App workflow that calls it.   *)
(*                                                                         *)
(* Units.  Pixel coordinates that the code keeps as floating point numbers *)
(* (the results of denormalizeBox, the text metrics) are kept exactly, as  *)
(* integers counting thousandths of a pixel ("mpx").  Math.floor of such a *)
(* number is \div 1000.  Strings are sequences of one-character strings.   *)
(***************************************************************************)
EXTENDS Integers, Sequences, FiniteSets, TLC

\* ------------------------------------------------------------------------
\* Bounds of the model
\* ------------------------------------------------------------------------
MaxTextLen == 4      \* longest text enumerated for the layout engine
MaxFont == 3         \* font sizes of the enumerated configs are 1..MaxFont

\* ------------------------------------------------------------------------
\* Strings
\* ------------------------------------------------------------------------
NL == "\n"
SP == " "
BULLET == "*"        \* stands for the bullet character U+2022

IsSpace(c) == c \in {SP, NL}
IsDigit(c) == c \in {"0", "1", "2", "3", "4", "5", "6", "7", "8", "9"}

Includes(s, c) == \E i \in 1..Len(s) : s[i] = c

\* String.prototype.split(sep) for a one-character separator
RECURSIVE SplitFrom(_, _, _, _)
SplitFrom(s, c, i, cur) ==
  IF i > Len(s) THEN <<cur>>
  ELSE IF s[i] = c THEN <<cur>> \o SplitFrom(s, c, i + 1, <<>>)
  ELSE SplitFrom(s, c, i + 1, Append(cur, s[i]))

Split(s, c) == SplitFrom(s, c, 1, <<>>)

\* String.prototype.split('') : one token per character
SplitChars(s) == [i \in 1..Len(s) |-> <<s[i]>>]

\* String.prototype.trim()
RECURSIVE TrimLeft(_)
TrimLeft(s) ==
  IF s = <<>> THEN s ELSE IF IsSpace(Head(s)) THEN TrimLeft(Tail(s)) ELSE s

RECURSIVE TrimRight(_)
TrimRight(s) ==
  IF s = <<>> THEN s
  ELSE IF IsSpace(s[Len(s)]) THEN TrimRight(SubSeq(s, 1, Len(s) - 1)) ELSE s

Trim(s) == TrimRight(TrimLeft(s))

\* ------------------------------------------------------------------------
\* Text metrics: ctx.measureText(s).width under `${fontSize}px <family>`.
\* The family is monospace with a CJK fallback: a Latin glyph advances
\* 0.6 em, a CJK glyph ("W" here) a full em, a line break nothing.
\* The result is in mpx.
\* ------------------------------------------------------------------------
Advance(c) == IF c = "W" THEN 10 ELSE IF c = NL THEN 0 ELSE 6

RECURSIVE SumAdvance(_)
SumAdvance(s) == IF s = <<>> THEN 0 ELSE Advance(Head(s)) + SumAdvance(Tail(s))

MeasureText(s, fontSize) == SumAdvance(s) * fontSize * 100

\* ------------------------------------------------------------------------
\* drawAdaptiveText: alignment detection
\* ------------------------------------------------------------------------
\* /^\s*(\d+\.|-|•)/.test(text)
RECURSIVE DigitsThenDot(_)
DigitsThenDot(s) ==
  /\ s # <<>>
  /\ \/ Head(s) = "."
     \/ IsDigit(Head(s)) /\ DigitsThenDot(Tail(s))

ListPattern(text) ==
  LET t == TrimLeft(text) IN
    /\ t # <<>>
    /\ \/ Head(t) = "-"
       \/ Head(t) = BULLET
       \/ IsDigit(Head(t)) /\ DigitsThenDot(Tail(t))

isListOrMultiLine(text) == Includes(text, NL) \/ ListPattern(text)

\* mutant: every text centred, as the earlier layout engine drew it
alignmentAlwaysCentre(text) == "center"

alignment(text) == IF isListOrMultiLine(text) THEN "left" ELSE "center"

\* ------------------------------------------------------------------------
\* drawAdaptiveText: computeLines
\* ------------------------------------------------------------------------
lineHeightMultiplier10 == 12    \* 1.2, in tenths

\* mutant: on overflow the finished line is not pushed (its tokens are lost)
RECURSIVE PackTokensDropping(_, _, _, _, _, _, _)
PackTokensDropping(tokens, i, currentLine, acc, separator, fontSize, w) ==
  IF i > Len(tokens) THEN [ok |-> TRUE, lines |-> Append(acc, currentLine)]
  ELSE
    LET token == tokens[i]
        testLine == currentLine \o separator \o token
    IN IF MeasureText(testLine, fontSize) <= w
       THEN PackTokensDropping(tokens, i + 1, testLine, acc, separator, fontSize, w)
       ELSE IF MeasureText(token, fontSize) > w
            THEN [ok |-> FALSE, lines |-> <<>>]
            ELSE PackTokensDropping(tokens, i + 1, token, acc,
                                    separator, fontSize, w)

\* the inner for loop over tokens[1..]; ok = FALSE is the `return []`
RECURSIVE PackTokens(_, _, _, _, _, _, _)
PackTokens(tokens, i, currentLine, acc, separator, fontSize, w) ==
  IF i > Len(tokens) THEN [ok |-> TRUE, lines |-> Append(acc, currentLine)]
  ELSE
    LET token == tokens[i]
        testLine == currentLine \o separator \o token
    IN IF MeasureText(testLine, fontSize) <= w
       THEN PackTokens(tokens, i + 1, testLine, acc, separator, fontSize, w)
       ELSE IF MeasureText(token, fontSize) > w
            THEN [ok |-> FALSE, lines |-> <<>>]
            ELSE PackTokens(tokens, i + 1, token, Append(acc, currentLine),
                            separator, fontSize, w)

Tokens(paragraph) ==
  IF Includes(paragraph, SP) THEN Split(paragraph, SP) ELSE SplitChars(paragraph)

Separator(paragraph) == IF Includes(paragraph, SP) THEN <<SP>> ELSE <<>>

\* the outer loop over paragraphs, from paragraph k on
RECURSIVE WrapParagraphs(_, _, _, _, _)
WrapParagraphs(paragraphs, k, allWrappedLines, fontSize, w) ==
  IF k > Len(paragraphs) THEN allWrappedLines
  ELSE
    LET paragraph == paragraphs[k] IN
      IF paragraph = <<>>
      THEN WrapParagraphs(paragraphs, k + 1, allWrappedLines, fontSize, w)
      ELSE
        LET tokens == Tokens(paragraph)
            r == PackTokens(tokens, 2, tokens[1], allWrappedLines,
                            Separator(paragraph), fontSize, w)
        IN IF r.ok
           THEN WrapParagraphs(paragraphs, k + 1, r.lines, fontSize, w)
           ELSE <<>>

\* mutant: line breaks flow like spaces, the text wrapped as one paragraph
computeLinesFlowed(text, currentFontSize, w) ==
  WrapParagraphs(<<[i \in 1..Len(text) |-> IF text[i] = NL THEN SP ELSE text[i]]>>,
                 1, <<>>, currentFontSize, w)

computeLines(text, currentFontSize, w) ==
  WrapParagraphs(Split(text, NL), 1, <<>>, currentFontSize, w)

\* ------------------------------------------------------------------------
\* drawAdaptiveText: sizing loop, fallback and drawing
\* ------------------------------------------------------------------------
\* lines.length * (fontSize * 1.2) <= h, h in mpx
HeightFits(lines, fontSize, h) ==
  Len(lines) * fontSize * lineHeightMultiplier10 * 100 <= h

\* mutant: the loop runs on below minFontSize (while (fontSize > 0))
RECURSIVE SizingLoopBelowMin(_, _, _, _, _)
SizingLoopBelowMin(text, fontSize, minFontSize, w, h) ==
  IF fontSize < 1
  THEN [fontSize |-> fontSize, finalLines |-> <<>>]
  ELSE
    LET lines == computeLines(text, fontSize, w) IN
      IF Len(lines) > 0 /\ Len(lines) * fontSize * 12 * 100 <= h
      THEN [fontSize |-> fontSize, finalLines |-> lines]
      ELSE SizingLoopBelowMin(text, fontSize - 1, minFontSize, w, h)

\* while (fontSize >= minFontSize) { ... fontSize-- }
RECURSIVE SizingLoop(_, _, _, _, _)
SizingLoop(text, fontSize, minFontSize, w, h) ==
  IF fontSize < minFontSize
  THEN [fontSize |-> fontSize, finalLines |-> <<>>]
  ELSE
    LET lines == computeLines(text, fontSize, w) IN
      IF Len(lines) > 0 /\ HeightFits(lines, fontSize, h)
      THEN [fontSize |-> fontSize, finalLines |-> lines]
      ELSE SizingLoop(text, fontSize - 1, minFontSize, w, h)

\* if (finalLines.length === 0) { ... }
Fallback(text, minFontSize, w) ==
  LET lines == computeLines(text, minFontSize, w) IN
    [fontSize |-> minFontSize,
     finalLines |-> IF Len(lines) = 0 THEN <<text>> ELSE lines]

\* The outcome of one drawAdaptiveText call.  x, y, w, h in mpx; the
\* positions handed to fillText are kept doubled (x2, y2) so that the
\* halves in startY and drawX stay exact.
drawAdaptiveText(text, x, y, w, h, minFontSize, maxFontSize) ==
  LET loop == SizingLoop(text, maxFontSize, minFontSize, w, h)
      fellBack == Len(loop.finalLines) = 0
      fit == IF fellBack THEN Fallback(text, minFontSize, w) ELSE loop
      fontSize == fit.fontSize
      finalLines == fit.finalLines
      lineHeight == fontSize * lineHeightMultiplier10 * 100
      totalTextBlockHeight == Len(finalLines) * lineHeight
      startY2 == 2 * y + (h - totalTextBlockHeight) + lineHeight
      drawX2 == IF alignment(text) = "left" THEN 2 * x ELSE 2 * x + w
  IN [fontSize |-> fontSize,
      finalLines |-> finalLines,
      fallback |-> fellBack,
      textAlign |-> alignment(text),
      calls |-> [index \in 1..Len(finalLines) |->
                   [line |-> finalLines[index],
                    x2 |-> drawX2,
                    y2 |-> startY2 + 2 * (index - 1) * lineHeight
                             - 2 * fontSize * 100]]]

\* ------------------------------------------------------------------------
\* The raster surface: canvas.width x canvas.height opaque pixels <<r, g, b>>
\* ------------------------------------------------------------------------
CanvasW == 10
CanvasH == 10

Coords == (0..(CanvasW - 1)) \X (0..(CanvasH - 1))

Min(a, b) == IF a <= b THEN a ELSE b
Max(a, b) == IF a >= b THEN a ELSE b
Abs(a) == IF a < 0 THEN -a ELSE a

\* the pixels of the rectangle with corners (sx, sy) and (sx+sw, sy+sh):
\* canvas operations take a negative width or height as the mirrored span
InRect(p, sx, sy, sw, sh) ==
  /\ Min(sx, sx + sw) <= p[1] /\ p[1] < Max(sx, sx + sw)
  /\ Min(sy, sy + sh) <= p[2] /\ p[2] < Max(sy, sy + sh)

RectPixels(sx, sy, sw, sh) == {p \in Coords : InRect(p, sx, sy, sw, sh)}

\* ctx.getImageData(sx, sy, sw, sh).data, pixel by pixel in row-major order;
\* a pixel outside the canvas reads as transparent black
GetImageData(surface, sx, sy, sw, sh) ==
  LET x0 == Min(sx, sx + sw)
      y0 == Min(sy, sy + sh)
      aw == Abs(sw)
      ah == Abs(sh)
  IN [k \in 1..(aw * ah) |->
        LET p == <<x0 + ((k - 1) % aw), y0 + ((k - 1) \div aw)>> IN
          IF p \in Coords THEN surface[p] ELSE <<0, 0, 0>>]

\* ctx.fillRect(rx, ry, rw, rh) with an opaque fillStyle
FillRect(surface, rx, ry, rw, rh, colour) ==
  [p \in Coords |-> IF InRect(p, rx, ry, rw, rh) THEN colour ELSE surface[p]]

\* ------------------------------------------------------------------------
\* denormalizeBox: 0-1000 box -> pixel rectangle, here in mpx
\* ------------------------------------------------------------------------
denormalizeBox(box, width, height) ==
  [y |-> box[1] * height,
   x |-> box[2] * width,
   h |-> (box[3] - box[1]) * height,
   w |-> (box[4] - box[2]) * width]

\* ------------------------------------------------------------------------
\* smartInpaint
\* ------------------------------------------------------------------------
sampleThickness == 3
brightnessThreshold == 120

\* getImageDataSafe: null when the window leaves the canvas; getImageData
\* itself throws IndexSizeError on a zero width or height
getImageDataSafe(surface, sx, sy, sw, sh) ==
  IF sx < 0 \/ sy < 0 \/ sx + sw > CanvasW \/ sy + sh > CanvasH
  THEN [kind |-> "null", data |-> <<>>]
  ELSE IF sw = 0 \/ sh = 0
       THEN [kind |-> "throw", data |-> <<>>]
       ELSE [kind |-> "data", data |-> GetImageData(surface, sx, sy, sw, sh)]

\* brightness > 120 with brightness = (r + g + b) / 3
IsLight(c) == c[1] + c[2] + c[3] > 3 * brightnessThreshold

NoSamples == [rSum |-> 0, gSum |-> 0, bSum |-> 0, count |-> 0]

AddSamples(a, b) ==
  [rSum |-> a.rSum + b.rSum, gSum |-> a.gSum + b.gSum,
   bSum |-> a.bSum + b.bSum, count |-> a.count + b.count]

\* the loop body of processData for one pixel: what it adds to the sums
SampleOf(c) ==
  IF IsLight(c)
  THEN [rSum |-> c[1], gSum |-> c[2], bSum |-> c[3], count |-> 1]
  ELSE NoSamples

\* processData over the pixels lo..hi of one ImageData; the sums are
\* split in halves, which adds up the same pixels
RECURSIVE processData(_, _, _)
processData(data, lo, hi) ==
  IF lo > hi THEN NoSamples
  ELSE IF lo = hi THEN SampleOf(data[lo])
  ELSE LET mid == (lo + hi) \div 2 IN
         AddSamples(processData(data, lo, mid), processData(data, mid + 1, hi))

\* samples.forEach(processData); a null sample adds nothing
processSamples(samples) ==
  AddSamples(
    AddSamples(processData(samples[1].data, 1, Len(samples[1].data)),
               processData(samples[2].data, 1, Len(samples[2].data))),
    AddSamples(processData(samples[3].data, 1, Len(samples[3].data)),
               processData(samples[4].data, 1, Len(samples[4].data))))

\* Math.round(sum / count) for sum >= 0, count > 0
RoundDiv(sum, count) == (2 * sum + count) \div (2 * count)

\* x, y, w, h in mpx, padding in whole pixels
smartInpaint(surface, x, y, w, h, padding) ==
  LET rx == Max(0, (x - padding * 1000) \div 1000)
      ry == Max(0, (y - padding * 1000) \div 1000)
      rw == (w + padding * 2000) \div 1000
      rh == (h + padding * 2000) \div 1000
      samples ==
        << getImageDataSafe(surface, rx, ry - sampleThickness, rw, sampleThickness),
           getImageDataSafe(surface, rx, ry + rh, rw, sampleThickness),
           getImageDataSafe(surface, rx - sampleThickness, ry, sampleThickness, rh),
           getImageDataSafe(surface, rx + rw, ry, sampleThickness, rh) >>
      threw == \E n \in 1..4 : samples[n].kind = "throw"
      acc == processSamples(samples)
      fill == IF acc.count > 0
              THEN <<RoundDiv(acc.rSum, acc.count),
                     RoundDiv(acc.gSum, acc.count),
                     RoundDiv(acc.bSum, acc.count)>>
              ELSE <<255, 255, 255>>
  IN IF threw
     THEN [threw |-> TRUE, rect |-> <<rx, ry, rw, rh>>, fill |-> <<255, 255, 255>>,
           surface |-> surface]
     ELSE [threw |-> FALSE, rect |-> <<rx, ry, rw, rh>>, fill |-> fill,
           surface |-> FillRect(surface, rx, ry, rw, rh, fill)]

\* ------------------------------------------------------------------------
\* processCanvas: the filter
\* ------------------------------------------------------------------------
\* mutant: the filter without its third test (blank translations kept)
itemsToProcessFilterNoBlankTest(item) ==
  /\ item.category # "TECHNICAL"
  /\ Trim(item.originalText) # Trim(item.translatedText)

\* mutant: the texts are compared as they come, without trim()
itemsToProcessFilterNoTrim(item) ==
  /\ item.category # "TECHNICAL"
  /\ item.originalText # item.translatedText
  /\ Trim(item.translatedText) # <<>>

\* annotations.filter(item => ...): TRUE when the item is kept
itemsToProcessFilter(item) ==
  LET original == Trim(item.originalText)
      translated == Trim(item.translatedText)
  IN IF item.category = "TECHNICAL" THEN FALSE
     ELSE IF original = translated THEN FALSE
     ELSE IF translated = <<>> THEN FALSE
     ELSE TRUE

\* the indexes of the kept items, in list order
RECURSIVE FilterFrom(_, _)
FilterFrom(anns, k) ==
  IF k > Len(anns) THEN <<>>
  ELSE IF itemsToProcessFilter(anns[k])
       THEN <<k>> \o FilterFrom(anns, k + 1)
       ELSE FilterFrom(anns, k + 1)

itemsToProcess(anns) == FilterFrom(anns, 1)

\* ------------------------------------------------------------------------
\* State
\* ------------------------------------------------------------------------
VARIABLES
  ltext,        \* layout engine: the text argument of drawAdaptiveText
  lbox,         \* layout engine: the region [x, y, w, h] in mpx
  lcfg,         \* layout engine: [minFontSize, maxFontSize]
  lpc,          \* layout engine: "sizing" | "drawing" | "done"
  lfit,         \* layout engine: fontSize / finalLines / fallback after sizing
  lcalls,       \* layout engine: the fillText calls made, in order
  pixels,       \* processCanvas: the raster of the canvas being processed
  input,        \* processCanvas: the raster as it was when the call began
  annotations,  \* processCanvas: the annotations argument
  config,       \* processCanvas: [padding, minFontSize, maxFontSize]
  hasCtx,       \* processCanvas: canvas.getContext("2d") returns a context
  pc,           \* processCanvas: "idle" | "call" | "pass1" | "pass2" |
                \*                "returned" | "threw"
  items,        \* processCanvas: itemsToProcess, as indexes into annotations
  idx,          \* processCanvas: position of the running forEach in items
  ops,          \* processCanvas: the fillRect / fillText calls made, in order
  imageSrc,     \* App: the imageSrc state ("none" for null, else an image)
  stage,        \* App: the stage state
  errorMsg,     \* App: the errorMsg state ("none" for null)
  shown,        \* App: the annotations state
  origImage,    \* App: the image drawn on the original canvas ("none": blank)
  reads,        \* App: FileReader reads in flight
  loads,        \* App: Image loads in flight (img.onload pending)
  calls,        \* App: analyzeImage calls in flight
  timers,       \* App: pending setTimeout callbacks of handleProcess
  apiKey,       \* App: process.env.API_KEY is set
  nUploads,     \* App: uploads made so far
  nClicks       \* App: Translate clicks made so far

layoutVars == <<ltext, lbox, lcfg, lpc, lfit, lcalls>>
canvasVars == <<pixels, input, annotations, config, hasCtx, pc, items, idx, ops>>
appVars == <<imageSrc, stage, errorMsg, shown, origImage, reads, loads, calls,
             timers, apiKey, nUploads, nClicks>>
vars == <<layoutVars, canvasVars, appVars>>

NoFit == [fontSize |-> 0, finalLines |-> <<>>, fallback |-> FALSE, textAlign |-> "center", calls |-> <<>>]

InitLayoutIdle ==
  /\ ltext = <<>>
  /\ lbox = [x |-> 0, y |-> 0, w |-> 0, h |-> 0]
  /\ lcfg = [minFontSize |-> 1, maxFontSize |-> 1]
  /\ lpc = "done"
  /\ lfit = NoFit
  /\ lcalls = <<>>

\* ------------------------------------------------------------------------
\* processCanvas as a state machine over enumerated inputs
\* ------------------------------------------------------------------------
MaxRegions == 2      \* longest annotations list enumerated

\* input surfaces
Paper == [p \in Coords |-> <<240, 240, 240>>]
Dark == [p \in Coords |-> <<10, 10, 10>>]
Ruled ==
  [p \in Coords |->
     CASE (p[1] + 2 * p[2]) % 4 = 0 -> <<0, 0, 0>>
       [] (p[1] + 2 * p[2]) % 4 = 1 -> <<120, 120, 120>>
       [] (p[1] + 2 * p[2]) % 4 = 2 -> <<121, 120, 120>>
       [] OTHER -> <<250, 241, 200>>]

Surfaces == {Paper, Dark, Ruled}

\* boxes [ymin, xmin, ymax, xmax] on the 0-1000 scale
BoxCentre == <<400, 400, 600, 600>>
BoxOverlap == <<500, 500, 700, 800>>
BoxCorner == <<0, 0, 200, 300>>
BoxInverted == <<600, 700, 400, 300>>
BoxEmpty == <<300, 500, 500, 500>>
BoxMirrored == <<800, 800, 400, 400>>
BoxOutside == <<800, 800, 1200, 1200>>

\* (originalText, translatedText) pairs: equal after trim, blank
\* translation, changed translation
TextSame == [originalText |-> <<"a">>, translatedText |-> <<SP, "a">>]
TextBlank == [originalText |-> <<"a">>, translatedText |-> <<SP>>]
TextChanged == [originalText |-> <<"a">>, translatedText |-> <<"W", SP, "a">>]

\* "NONE" stands for an item without a category
Categories == {"TEXT", "TECHNICAL", "NONE"}

Region(box, cat, t) ==
  [originalText |-> t.originalText, translatedText |-> t.translatedText,
   box_2d |-> box, category |-> cat]

Regions ==
  {Region(BoxCentre, c, t) : c \in Categories, t \in {TextSame, TextBlank, TextChanged}}
  \cup {Region(b, "TEXT", TextChanged) :
          b \in {BoxOverlap, BoxCorner, BoxInverted, BoxEmpty, BoxMirrored,
                BoxOutside}}
  \cup {Region(BoxOverlap, "TECHNICAL", TextSame)}

AnnotationLists == UNION {[1..n -> Regions] : n \in 0..MaxRegions}

Configs ==
  {[padding |-> pd, minFontSize |-> f[1], maxFontSize |-> f[2]] :
     pd \in {1, 2}, f \in {<<1, 2>>, <<2, 1>>}}

InitCanvasIdle ==
  /\ pixels = Paper
  /\ input = Paper
  /\ annotations = <<>>
  /\ config = [padding |-> 1, minFontSize |-> 1, maxFontSize |-> 2]
  /\ hasCtx = TRUE
  /\ pc = "idle"
  /\ items = <<>>
  /\ idx = 1
  /\ ops = <<>>

InitCanvas ==
  /\ pixels \in Surfaces
  /\ input = pixels
  /\ annotations \in AnnotationLists
  /\ config \in Configs
  /\ hasCtx \in BOOLEAN
  /\ pc = "call"
  /\ items = <<>>
  /\ idx = 1
  /\ ops = <<>>

\* line 224-225: if (!ctx) return;
PC_NoContext ==
  /\ pc = "call"
  /\ ~hasCtx
  /\ pc' = "returned"
  /\ UNCHANGED <<pixels, input, annotations, config, hasCtx, items, idx, ops, layoutVars, appVars>>

\* lines 227-244: the filter
PC_Filter ==
  /\ pc = "call"
  /\ hasCtx
  /\ items' = itemsToProcess(annotations)
  /\ idx' = 1
  /\ pc' = "pass1"
  /\ UNCHANGED <<pixels, input, annotations, config, hasCtx, ops, layoutVars, appVars>>

\* lines 247-250: one iteration of pass 1; an exception thrown by
\* getImageData leaves smartInpaint and processCanvas at once
PC_Inpaint ==
  /\ pc = "pass1"
  /\ idx <= Len(items)
  /\ LET item == annotations[items[idx]]
         coords == denormalizeBox(item.box_2d, CanvasW, CanvasH)
         r == smartInpaint(pixels, coords.x, coords.y, coords.w, coords.h,
                           config.padding)
     IN IF r.threw
        THEN /\ pc' = "threw"
             /\ UNCHANGED <<pixels, idx, ops>>
        ELSE /\ pixels' = r.surface
             /\ ops' = Append(ops, [op |-> "fillRect", item |-> items[idx],
                                    rect |-> r.rect, fill |-> r.fill])
             /\ idx' = idx + 1
             /\ pc' = pc
  /\ UNCHANGED <<input, annotations, config, hasCtx, items, layoutVars, appVars>>

\* pass 1 has visited every item
PC_Pass1Done ==
  /\ pc = "pass1"
  /\ idx > Len(items)
  /\ pc' = "pass2"
  /\ idx' = 1
  /\ UNCHANGED <<pixels, input, annotations, config, hasCtx, items, ops, layoutVars, appVars>>

\* lines 253-264: one iteration of pass 2
PC_Draw ==
  /\ pc = "pass2"
  /\ idx <= Len(items)
  /\ LET item == annotations[items[idx]]
         coords == denormalizeBox(item.box_2d, CanvasW, CanvasH)
         d == drawAdaptiveText(item.translatedText, coords.x, coords.y,
                               coords.w, coords.h,
                               config.minFontSize, config.maxFontSize)
     IN ops' = ops \o [k \in 1..Len(d.calls) |->
                         [op |-> "fillText", item |-> items[idx],
                          line |-> d.calls[k].line,
                          x2 |-> d.calls[k].x2, y2 |-> d.calls[k].y2,
                          fontSize |-> d.fontSize, fallback |-> d.fallback,
                          textAlign |-> d.textAlign]]
  /\ idx' = idx + 1
  /\ UNCHANGED <<pixels, input, annotations, config, hasCtx, pc, items, layoutVars, appVars>>

\* line 265: pass 2 has visited every item
PC_Return ==
  /\ pc = "pass2"
  /\ idx > Len(items)
  /\ pc' = "returned"
  /\ UNCHANGED <<pixels, input, annotations, config, hasCtx, items, idx, ops, layoutVars, appVars>>

NextCanvas ==
  \/ PC_NoContext
  \/ PC_Filter
  \/ PC_Inpaint
  \/ PC_Pass1Done
  \/ PC_Draw
  \/ PC_Return

\* ------------------------------------------------------------------------
\* The App workflow around processCanvas
\* ------------------------------------------------------------------------
MaxUploads == 2      \* uploads per behaviour
MaxClicks == 2       \* Translate clicks per behaviour

DefaultPadding == 1
DefaultMinFontSize == 9
DefaultMaxFontSize == 16

DEFAULT_CONFIG ==
  [padding |-> DefaultPadding, minFontSize |-> DefaultMinFontSize,
   maxFontSize |-> DefaultMaxFontSize]

\* the images a user can upload, and what each looks like once drawn
Images == {"imgA", "imgB"}
Blank == [p \in Coords |-> <<0, 0, 0>>]
Raster(img) == IF img = "imgA" THEN Paper ELSE IF img = "imgB" THEN Ruled ELSE Blank

\* what analyzeImage can resolve with
Responses ==
  { <<>>,
    <<Region(BoxCentre, "TEXT", TextChanged)>>,
    <<Region(BoxCentre, "TECHNICAL", TextSame)>>,
    <<Region(BoxInverted, "TEXT", TextChanged),
      Region(BoxCentre, "TEXT", TextChanged)>> }

isProcessing == stage \in {"ANALYZING", "RECONSTRUCTING"}

InitAppIdle ==
  /\ imageSrc = "none"
  /\ stage = "IDLE"
  /\ errorMsg = "none"
  /\ shown = <<>>
  /\ origImage = "none"
  /\ reads = {}
  /\ loads = {}
  /\ calls = {}
  /\ timers = {}
  /\ apiKey = TRUE
  /\ nUploads = 0
  /\ nClicks = 0

InitApp ==
  /\ InitLayoutIdle
  /\ pixels = Blank
  /\ input = Blank
  /\ annotations = <<>>
  /\ config = DEFAULT_CONFIG
  /\ hasCtx \in BOOLEAN
  /\ pc = "idle"
  /\ items = <<>>
  /\ idx = 1
  /\ ops = <<>>
  /\ imageSrc = "none"
  /\ stage = "IDLE"
  /\ errorMsg = "none"
  /\ shown = <<>>
  /\ origImage = "none"
  /\ reads = {}
  /\ loads = {}
  /\ calls = {}
  /\ timers = {}
  /\ apiKey \in BOOLEAN
  /\ nUploads = 0
  /\ nClicks = 0

\* handleUpload: the file input is disabled while processing
handleUpload(img) ==
  /\ pc = "idle"
  /\ ~isProcessing
  /\ nUploads < MaxUploads
  /\ nUploads' = nUploads + 1
  /\ reads' = reads \cup {[id |-> nUploads + 1, img |-> img]}
  /\ UNCHANGED <<imageSrc, stage, errorMsg, shown, origImage, loads, calls,
                 timers, apiKey, nClicks, canvasVars, layoutVars>>

\* reader.onload, then the useEffect on [imageSrc], which starts an Image
\* load when imageSrc changed
ReaderOnload(r) ==
  /\ pc = "idle"
  /\ r \in reads
  /\ reads' = reads \ {r}
  /\ imageSrc' = r.img
  /\ stage' = "IDLE"
  /\ errorMsg' = "none"
  /\ shown' = <<>>
  /\ loads' = IF r.img # imageSrc THEN loads \cup {r} ELSE loads
  /\ UNCHANGED <<origImage, calls, timers, apiKey, nUploads, nClicks,
                 canvasVars, layoutVars>>

\* img.onload: size both canvases and draw the image on both
ImgOnload(l) ==
  /\ pc = "idle"
  /\ l \in loads
  /\ loads' = loads \ {l}
  /\ origImage' = IF hasCtx THEN l.img ELSE "none"
  /\ pixels' = IF hasCtx THEN Raster(l.img) ELSE Blank
  /\ UNCHANGED <<input, annotations, config, hasCtx, pc, items, idx, ops>>
  /\ UNCHANGED <<imageSrc, stage, errorMsg, shown, reads, calls, timers,
                 apiKey, nUploads, nClicks, layoutVars>>

\* handleProcess up to the await; without an API key analyzeImage rejects
\* at once and the catch block runs
handleProcess ==
  /\ pc = "idle"
  /\ imageSrc # "none"
  /\ ~isProcessing
  /\ nClicks < MaxClicks
  /\ nClicks' = nClicks + 1
  /\ IF apiKey
     THEN /\ stage' = "ANALYZING"
          /\ errorMsg' = "none"
          /\ calls' = calls \cup {[id |-> nClicks + 1, src |-> imageSrc]}
     ELSE /\ stage' = "ERROR"
          /\ errorMsg' = "API Key is missing"
          /\ calls' = calls
  /\ UNCHANGED <<imageSrc, shown, origImage, reads, loads, timers, apiKey,
                 nUploads, canvasVars, layoutVars>>

\* analyzeImage resolves: lines 71-86
AnalyzeResolve(c, detectedItems) ==
  /\ pc = "idle"
  /\ c \in calls
  /\ calls' = calls \ {c}
  /\ shown' = detectedItems
  /\ stage' = "RECONSTRUCTING"
  /\ timers' = timers \cup {[id |-> c.id, src |-> c.src, items |-> detectedItems]}
  /\ UNCHANGED <<imageSrc, errorMsg, origImage, reads, loads, apiKey,
                 nUploads, nClicks, canvasVars, layoutVars>>

\* mutant: the reconstruction is scheduled although analyzeImage rejected
AnalyzeRejectStillSchedules(c) ==
  /\ pc = "idle"
  /\ c \in calls
  /\ calls' = calls \ {c}
  /\ errorMsg' = "Gemini API Error"
  /\ stage' = "ERROR"
  /\ timers' = timers \cup {[id |-> c.id, src |-> c.src, items |-> shown]}
  /\ UNCHANGED <<imageSrc, shown, origImage, reads, loads, apiKey,
                 nUploads, nClicks, canvasVars, layoutVars>>

\* analyzeImage rejects: lines 88-92
AnalyzeReject(c) ==
  /\ pc = "idle"
  /\ c \in calls
  /\ calls' = calls \ {c}
  /\ errorMsg' = "Gemini API Error"
  /\ stage' = "ERROR"
  /\ UNCHANGED <<imageSrc, shown, origImage, reads, loads, timers, apiKey,
                 nUploads, nClicks, canvasVars, layoutVars>>

\* the timeout callback up to the call of processCanvas: lines 78-83
TimerFire(t) ==
  /\ pc = "idle"
  /\ t \in timers
  /\ timers' = timers \ {t}
  /\ pixels' = IF hasCtx THEN Raster(origImage) ELSE pixels
  /\ input' = pixels'
  /\ annotations' = t.items
  /\ config' = DEFAULT_CONFIG
  /\ pc' = "call"
  /\ items' = <<>>
  /\ idx' = 1
  /\ ops' = <<>>
  /\ UNCHANGED <<hasCtx, imageSrc, stage, errorMsg, shown, origImage, reads,
                 loads, calls, apiKey, nUploads, nClicks, layoutVars>>

\* processCanvas returned: line 84
TimerDone ==
  /\ pc = "returned"
  /\ pc' = "idle"
  /\ stage' = "COMPLETED"
  /\ UNCHANGED <<pixels, input, annotations, config, hasCtx, items, idx, ops>>
  /\ UNCHANGED <<imageSrc, errorMsg, shown, origImage, reads, loads, calls,
                 timers, apiKey, nUploads, nClicks, layoutVars>>

\* processCanvas threw: nothing catches inside the timeout callback
TimerUncaught ==
  /\ pc = "threw"
  /\ pc' = "idle"
  /\ UNCHANGED <<pixels, input, annotations, config, hasCtx, items, idx, ops>>
  /\ UNCHANGED <<appVars, layoutVars>>

NextApp ==
  \/ \E img \in Images : handleUpload(img)
  \/ \E r \in reads : ReaderOnload(r)
  \/ \E l \in loads : ImgOnload(l)
  \/ handleProcess
  \/ \E c \in calls, d \in Responses : AnalyzeResolve(c, d)
  \/ \E c \in calls : AnalyzeReject(c)
  \/ \E t \in timers : TimerFire(t)
  \/ PC_NoContext
  \/ PC_Filter
  \/ PC_Inpaint
  \/ PC_Pass1Done
  \/ PC_Draw
  \/ PC_Return
  \/ TimerDone
  \/ TimerUncaught

SpecApp == InitApp /\ [][NextApp]_vars

\* The event loop runs what is pending: a pending analyzeImage promise
\* settles and a due timer fires. The timeout callback is synchronous: once
\* entered it runs to its end (processCanvas is straight-line code over
\* finite loops), so control always comes back to the event loop.
Settle ==
  \E c \in calls :
    \/ \E d \in Responses : AnalyzeResolve(c, d)
    \/ AnalyzeReject(c)

TimerFires == \E t \in timers : TimerFire(t)

CallbackCompletes == []<>(pc = "idle")

SpecAppFair ==
  /\ InitApp
  /\ [][NextApp]_vars
  /\ WF_vars(Settle)
  /\ WF_vars(TimerFires)
  /\ CallbackCompletes

\* ------------------------------------------------------------------------
\* The layout engine on its own: drawAdaptiveText over enumerated inputs
\* ------------------------------------------------------------------------
RECURSIVE SeqsUpTo(_, _)
SeqsUpTo(S, n) ==
  IF n = 0 THEN {<<>>}
  ELSE LET shorter == SeqsUpTo(S, n - 1) IN
         shorter \cup {Append(s, c) : s \in {t \in shorter : Len(t) = n - 1}, c \in S}

LayoutChars == {"a", "W", SP, NL}

\* list-like and label-like texts for the alignment rule
ListTexts ==
  { <<"1", ".", "a">>, <<"1", "2", ".", "a">>, <<SP, "1", ".", "a">>,
    <<"-", "a">>, <<BULLET, "a">>, <<"1", "a">>, <<"a", "-">>, <<"1">>,
    <<".", "a">>, <<"a", " ", "1", ".">> }

\* processCanvas only draws texts whose trim is non-empty
LayoutTexts ==
  {t \in SeqsUpTo(LayoutChars, MaxTextLen) \cup ListTexts : Trim(t) # <<>>}

LayoutWidths == {500, 1300, 2500}
LayoutHeights == {1000, 2400, 6000}
LayoutOrigins == {0, 1000}

InitLayout ==
  /\ InitCanvasIdle
  /\ InitAppIdle
  /\ ltext \in LayoutTexts
  /\ \E o \in LayoutOrigins, w \in LayoutWidths, h \in LayoutHeights :
       lbox = [x |-> o, y |-> o, w |-> w, h |-> h]
  /\ \E mn \in 1..MaxFont, mx \in 1..MaxFont :
       lcfg = [minFontSize |-> mn, maxFontSize |-> mx]
  /\ lpc = "sizing"
  /\ lfit = NoFit
  /\ lcalls = <<>>

\* lines 124-195: the sizing loop and the fallback
LayoutSize ==
  /\ lpc = "sizing"
  /\ lfit' = drawAdaptiveText(ltext, lbox.x, lbox.y, lbox.w, lbox.h,
                              lcfg.minFontSize, lcfg.maxFontSize)
  /\ lpc' = "drawing"
  /\ UNCHANGED <<ltext, lbox, lcfg, lcalls, canvasVars, appVars>>

\* lines 197-216: finalLines.forEach(fillText)
LayoutDraw ==
  /\ lpc = "drawing"
  /\ lcalls' = lfit.calls
  /\ lpc' = "done"
  /\ UNCHANGED <<ltext, lbox, lcfg, lfit, canvasVars, appVars>>

NextLayout == LayoutSize \/ LayoutDraw

SpecLayout == InitLayout /\ [][NextLayout]_vars

Init == InitCanvas /\ InitLayoutIdle /\ InitAppIdle
Next == NextCanvas
Spec == Init /\ [][Next]_vars

\* ------------------------------------------------------------------------
\* Claims about the layout engine (checked under SpecLayout)
\* ------------------------------------------------------------------------
LayoutSized == lpc \in {"drawing", "done"}
CandidateRange == lcfg.minFontSize..lcfg.maxFontSize

AllLinesWithin(lines, fontSize, w) ==
  \A k \in 1..Len(lines) : MeasureText(lines[k], fontSize) <= w

\* every token of every non-empty paragraph of the text
TextTokens(text) ==
  LET ps == Split(text, NL) IN
    UNION { {Tokens(ps[k])[j] : j \in 1..Len(Tokens(ps[k]))} :
            k \in {n \in 1..Len(ps) : ps[n] # <<>>} }

\* the wrap of the text at size s fits the region: the acceptance test as
\* the specification words it
WrapFits(text, s, w, h) ==
  LET lines == computeLines(text, s, w) IN
    /\ lines # <<>>
    /\ AllLinesWithin(lines, s, w)
    /\ Len(lines) * s * 12 * 100 <= h

\* C5: the font size drawn with is inside [minFontSize, maxFontSize] when the
\* sizing loop accepted it, and is exactly minFontSize on the fallback path.
C5_FontSizeBounds ==
  LayoutSized =>
    IF lfit.fallback
    THEN lfit.fontSize = lcfg.minFontSize
    ELSE lcfg.minFontSize <= lfit.fontSize /\ lfit.fontSize <= lcfg.maxFontSize

C5_Witness ==
  /\ lpc = "done"
  /\ ~lfit.fallback
  /\ lcfg.minFontSize < lfit.fontSize
  /\ lfit.fontSize < lcfg.maxFontSize
  /\ Len(lcalls) >= 2

\* C6: an accepted size is the largest candidate whose wrap has every line
\* no wider than w and a block height no greater than h; every line drawn at
\* an accepted size is no wider than w.
C6_LargestFittingSize ==
  (LayoutSized /\ ~lfit.fallback) =>
    /\ WrapFits(ltext, lfit.fontSize, lbox.w, lbox.h)
    /\ AllLinesWithin(lfit.finalLines, lfit.fontSize, lbox.w)
    /\ \A s \in CandidateRange :
         s > lfit.fontSize => ~WrapFits(ltext, s, lbox.w, lbox.h)

\* C7: at every candidate size, a token wider than w makes computeLines
\* return no lines, whatever the token's position.
C7_WideTokenRejected ==
  \A s \in CandidateRange :
    (\E t \in TextTokens(ltext) : MeasureText(t, s) > lbox.w)
      => computeLines(ltext, s, lbox.w) = <<>>

\* C8: when no candidate size yields a fitting wrap, the text is drawn at
\* exactly minFontSize with the wrap recomputed at minFontSize, or with the
\* single raw string when that wrap is empty; a text that is one token too
\* wide at every size is drawn as the one raw string; drawing completes.
NoCandidateFits ==
  \A s \in CandidateRange : ~WrapFits(ltext, s, lbox.w, lbox.h)

SingleTokenText(text) == Split(text, NL) = <<text>> /\ Tokens(text) = <<text>>

TooWideAtEverySize ==
  \A s \in (CandidateRange \cup {lcfg.minFontSize}) :
    MeasureText(ltext, s) > lbox.w

C8_FallbackDraw ==
  /\ (LayoutSized /\ NoCandidateFits) =>
       /\ lfit.fontSize = lcfg.minFontSize
       /\ lfit.finalLines =
            (IF computeLines(ltext, lcfg.minFontSize, lbox.w) = <<>>
             THEN <<ltext>>
             ELSE computeLines(ltext, lcfg.minFontSize, lbox.w))
  /\ (LayoutSized /\ SingleTokenText(ltext) /\ TooWideAtEverySize) =>
       lfit.finalLines = <<ltext>>
  /\ lpc = "done" =>
       /\ Len(lcalls) = Len(lfit.finalLines)
       /\ Len(lcalls) >= 1
       /\ \A k \in 1..Len(lcalls) : lcalls[k].line = lfit.finalLines[k]

\* ------------------------------------------------------------------------
\* Claims about processCanvas (checked under Spec)
\* ------------------------------------------------------------------------
Ended == pc \in {"returned", "threw"}
Filtered == pc \in {"pass1", "pass2", "returned", "threw"} /\ hasCtx

ItemSet == {items[n] : n \in 1..Len(items)}
OpsOf(k, kind) == {n \in 1..Len(ops) : ops[n].item = k /\ ops[n].op = kind}
Erased(k) == OpsOf(k, "fillRect") # {}
Drawn(k) == OpsOf(k, "fillText") # {}

\* the pixels that lie wholly inside the box of an annotation
BoxPixels(item) ==
  LET c == denormalizeBox(item.box_2d, CanvasW, CanvasH) IN
    {p \in Coords : /\ c.x <= p[1] * 1000 /\ (p[1] + 1) * 1000 <= c.x + c.w
                    /\ c.y <= p[2] * 1000 /\ (p[2] + 1) * 1000 <= c.y + c.h}

Unchanged(item) == Trim(item.originalText) = Trim(item.translatedText)

\* C1: every pixel inside the box of a TECHNICAL region, or of a region whose
\* trimmed texts are equal, is the same after processCanvas as before it.
C1_UntouchedBoxesKeepPixels ==
  \A k \in 1..Len(annotations) :
    (annotations[k].category = "TECHNICAL" \/ Unchanged(annotations[k]))
      => \A p \in BoxPixels(annotations[k]) : pixels[p] = input[p]

Processable(item) ==
  /\ item.category # "TECHNICAL"
  /\ Trim(item.translatedText) # <<>>
  /\ ~Unchanged(item)

DrawnOnce(k) ==
  /\ Drawn(k)
  /\ \A m, n \in OpsOf(k, "fillText") :
       \A j \in m..n : ops[j].op = "fillText" /\ ops[j].item = k

C3_TwoPasses ==
  /\ \A m, n \in 1..Len(ops) :
       (ops[m].op = "fillText" /\ ops[n].op = "fillRect") => n < m
  /\ \A m, n \in 1..Len(ops) :
       (m < n /\ ops[m].op = ops[n].op) => ops[m].item <= ops[n].item
  /\ (Ended /\ hasCtx) =>
       \A k \in 1..Len(annotations) :
         Processable(annotations[k]) =>
           /\ Cardinality(OpsOf(k, "fillRect")) = 1
           /\ DrawnOnce(k)

\* C4: the fill colour of an erase is the per-channel mean, rounded to the
\* nearest integer, of the pixels brighter than 120 in the four border
\* strips (top, bottom, left, right) of the filled rectangle, a strip not
\* wholly inside the surface giving no pixel; white when none is retained.
StripPixels(x0, x1, y0, y1) ==
  IF x0 >= 0 /\ x1 <= CanvasW /\ y0 >= 0 /\ y1 <= CanvasH
  THEN {p \in Coords : x0 <= p[1] /\ p[1] < x1 /\ y0 <= p[2] /\ p[2] < y1}
  ELSE {}

BorderPixels(rect) ==
  LET l == Min(rect[1], rect[1] + rect[3])
      r == Max(rect[1], rect[1] + rect[3])
      t == Min(rect[2], rect[2] + rect[4])
      b == Max(rect[2], rect[2] + rect[4])
  IN StripPixels(l, r, t - 3, t) \cup StripPixels(l, r, b, b + 3)
       \cup StripPixels(l - 3, l, t, b) \cup StripPixels(r, r + 3, t, b)

RECURSIVE WeightedSum(_, _, _, _)
WeightedSum(colours, S, surface, ch) ==
  IF colours = {} THEN 0
  ELSE LET c == CHOOSE d \in colours : TRUE IN
         c[ch] * Cardinality({p \in S : surface[p] = c})
           + WeightedSum(colours \ {c}, S, surface, ch)

ChannelSum(S, surface, ch) ==
  WeightedSum({surface[p] : p \in S}, S, surface, ch)

IsBorderMean(fill, rect, surface) ==
  LET kept == {p \in BorderPixels(rect) :
                 surface[p][1] + surface[p][2] + surface[p][3] > 360}
      n == Cardinality(kept)
  IN IF n = 0 THEN fill = <<255, 255, 255>>
     ELSE \A ch \in 1..3 :
            /\ 2 * ChannelSum(kept, surface, ch) - n <= 2 * n * fill[ch]
            /\ 2 * n * fill[ch] <= 2 * ChannelSum(kept, surface, ch) + n

C4_FillIsLightBorderMean ==
  [][(pc = "pass1" /\ Len(ops') = Len(ops) + 1)
       => IsBorderMean(ops'[Len(ops')].fill, ops'[Len(ops')].rect, pixels)]_vars

\* C9: with minFontSize > maxFontSize the run does not crash: every
\* filtered region is erased, and drawn through the fallback path.
C9_InvertedFontBounds ==
  (config.minFontSize > config.maxFontSize /\ hasCtx) =>
    /\ pc # "threw"
    /\ \A n \in 1..Len(ops) :
         ops[n].op = "fillText" =>
           ops[n].fallback /\ ops[n].fontSize = config.minFontSize
    /\ pc = "returned" =>
         \A k \in 1..Len(annotations) :
           Processable(annotations[k]) => Erased(k) /\ Drawn(k)

\* ------------------------------------------------------------------------
\* Claims about the App workflow (checked under SpecApp)
\* ------------------------------------------------------------------------
\* C10: when no 2D context can be obtained, processCanvas mutates nothing
\* and the failure reaches the caller, which does not enter COMPLETED.
C10_MissingContextReported ==
  ~hasCtx =>
    /\ Ended => pixels = input /\ ops = <<>>
    /\ stage # "COMPLETED"

\* ------------------------------------------------------------------------
\* Alignment (checked under SpecLayout)
\* ------------------------------------------------------------------------
\* the alignment rule as the specification words it, over the characters
AllSpaces(text, k) == \A i \in 1..k : text[i] \in {SP, NL}

MarkerAt(text, k) ==
  /\ k <= Len(text)
  /\ \/ text[k] \in {"-", BULLET}
     \/ \E d \in 1..Len(text) :
          /\ k + d <= Len(text)
          /\ \A i \in k..(k + d - 1) : text[i] \in {"0", "1", "2", "3", "4", "5", "6", "7", "8", "9"}
          /\ text[k + d] = "."

SaidLeftAligned(text) ==
  \/ \E i \in 1..Len(text) : text[i] = NL
  \/ \E k \in 0..Len(text) : AllSpaces(text, k) /\ MarkerAt(text, k + 1)

\* C11: the text is drawn left-aligned at x exactly when it holds a line
\* break or starts, after optional whitespace, with digits and a period, a
\* dash or a bullet; otherwise it is drawn centred at x + w/2.
C11_AlignmentRule ==
  LayoutSized =>
    /\ lfit.textAlign = (IF SaidLeftAligned(ltext) THEN "left" ELSE "center")
    /\ \A k \in 1..Len(lfit.calls) :
         lfit.calls[k].x2 =
           (IF SaidLeftAligned(ltext) THEN 2 * lbox.x ELSE 2 * lbox.x + lbox.w)

C11_Witness ==
  /\ lpc = "done"
  /\ ltext = <<SP, "1", ".", "a">>
  /\ lbox.x = 1000
  /\ lfit.textAlign = "left"
  /\ Len(lcalls) >= 1
  /\ lcalls[1].x2 = 2000

\* ------------------------------------------------------------------------
\* The erase rectangle (checked under Spec)
\* ------------------------------------------------------------------------
\* pixel p lies in [x - padding, x + w + padding) x [y - padding, y + h + padding)
InPaddedBox(p, item, padding) ==
  LET c == denormalizeBox(item.box_2d, CanvasW, CanvasH) IN
    /\ c.x - padding * 1000 < (p[1] + 1) * 1000
    /\ p[1] * 1000 < c.x + c.w + padding * 1000
    /\ c.y - padding * 1000 < (p[2] + 1) * 1000
    /\ p[2] * 1000 < c.y + c.h + padding * 1000

\* C12: every pixel an erase writes lies inside its region's padded
\* rectangle, also for a box closer than the padding to the left or top edge.
C12_FillInsidePaddedBox ==
  \A n \in 1..Len(ops) :
    ops[n].op = "fillRect" =>
      \A p \in Coords :
        InRect(p, ops[n].rect[1], ops[n].rect[2], ops[n].rect[3], ops[n].rect[4])
          => InPaddedBox(p, annotations[ops[n].item], config.padding)

\* ------------------------------------------------------------------------
\* The pixel region of a processed annotation (checked under Spec)
\* ------------------------------------------------------------------------
\* C13: the pixel region handed to the erase and to the text draw of any
\* region lies on the surface and has a non-negative width and height.
C13_PixelRegionClamped ==
  \A n \in 1..Len(ops) :
    LET c == denormalizeBox(annotations[ops[n].item].box_2d, CanvasW, CanvasH) IN
      /\ 0 <= c.x /\ 0 <= c.y
      /\ 0 <= c.w /\ 0 <= c.h
      /\ c.x + c.w <= CanvasW * 1000
      /\ c.y + c.h <= CanvasH * 1000

\* ------------------------------------------------------------------------
\* Isolation of regions (checked under Spec)
\* ------------------------------------------------------------------------
\* C14: whatever one region of the list is like, every other filtered
\* region has been erased and drawn when the run has ended.
C14_RegionsIsolated ==
  (Ended /\ hasCtx) =>
    \A j, k \in 1..Len(annotations) :
      (j # k /\ Processable(annotations[k])) => Erased(k) /\ Drawn(k)

\* ------------------------------------------------------------------------
\* Failure of the analysis (checked under SpecApp)
\* ------------------------------------------------------------------------
\* the step in which an analyzeImage call settles by rejecting, and the
\* step in which handleProcess fails at once for want of an API key
RejectStep == calls' # calls /\ calls' \subseteq calls /\ timers' = timers
NoKeyStep == nClicks' # nClicks /\ ~apiKey
ScheduleStep == timers' # timers /\ timers \subseteq timers'

\* C15 as claimed: ERROR is entered only by analyzeImage failing; a failed
\* run does not invoke processCanvas, and leaves the result canvas holding
\* a copy of the unmodified original image.
C15_FailureLeavesOriginal ==
  [][/\ (stage' = "ERROR" /\ stage # "ERROR") => (RejectStep \/ NoKeyStep)
     /\ (RejectStep \/ NoKeyStep) =>
          /\ stage' = "ERROR"
          /\ pc' = "idle"
          /\ pixels' = Raster(origImage')]_vars

\* C15 as amended: ERROR is entered only by analyzeImage failing, never by
\* processCanvas; a failed run schedules no reconstruction, does not invoke
\* processCanvas and writes nothing to the result canvas, which keeps what
\* it held when the call failed.
C15_FailureWritesNothing ==
  [][/\ (stage' = "ERROR" /\ stage # "ERROR") => (RejectStep \/ NoKeyStep)
     /\ (RejectStep \/ NoKeyStep) =>
          /\ stage' = "ERROR"
          /\ pc = "idle" /\ pc' = "idle"
          /\ timers' = timers
          /\ pixels' = pixels /\ ops' = ops
     /\ ScheduleStep =>
          /\ stage' = "RECONSTRUCTING"
          /\ \E c \in calls : c \notin calls' /\ timers' \ timers = {[id |-> c.id, src |-> c.src, items |-> shown']}
     /\ pc # "idle" => (stage' = "ERROR" => stage = "ERROR")]_vars

C15_Witness ==
  /\ stage = "ERROR"
  /\ apiKey /\ hasCtx
  /\ nClicks = 2
  /\ calls = {} /\ timers = {}
  /\ pc = "idle"
  /\ origImage # "none"
  /\ pixels # Raster(origImage)

\* ------------------------------------------------------------------------
\* Idempotence (checked under Spec)
\* ------------------------------------------------------------------------
AllUntouched ==
  \A k \in 1..Len(annotations) :
    annotations[k].category = "TECHNICAL" \/ Unchanged(annotations[k])

\* C16: when every region is TECHNICAL or has equal trimmed texts, a run
\* selects nothing and writes nothing: the surface is the same after it.
C16_NothingToDoWritesNothing ==
  AllUntouched =>
    /\ ops = <<>>
    /\ pixels = input
    /\ items = <<>>
    /\ pc # "threw"

C16_Witness ==
  /\ pc = "returned"
  /\ hasCtx
  /\ Len(annotations) = 2
  /\ annotations[1] = Region(BoxCentre, "TECHNICAL", TextChanged)
  /\ annotations[2] = Region(BoxCentre, "TEXT", TextSame)
  /\ input = Ruled
  /\ pixels = input

\* ------------------------------------------------------------------------
\* Paragraphs and wrapping (checked under SpecLayout)
\* ------------------------------------------------------------------------
\* the non-empty paragraphs of a text, as the spans <<first, last>> of its
\* maximal runs without a line break
ParagraphSpans(text) ==
  {sp \in (1..Len(text)) \X (1..Len(text)) :
     /\ sp[1] <= sp[2]
     /\ \A i \in sp[1]..sp[2] : text[i] # NL
     /\ sp[1] = 1 \/ text[sp[1] - 1] = NL
     /\ sp[2] = Len(text) \/ text[sp[2] + 1] = NL}

\* the non-empty paragraphs in text order
ParagraphSeq(text) ==
  LET spans == ParagraphSpans(text)
      n == Cardinality(spans)
      order == CHOOSE f \in [1..n -> spans] :
                 \A a, b \in 1..n : a < b => f[a][1] < f[b][1]
  IN [k \in 1..n |-> SubSeq(text, order[k][1], order[k][2])]

Infix(line, paragraph) ==
  \E i \in 0..(Len(paragraph) - Len(line)) :
    SubSeq(paragraph, i + 1, i + Len(line)) = line

\* each line comes from one paragraph, the paragraphs are used in order and
\* none is skipped
LinesFollowParagraphs(lines, paras) ==
  \E f \in [1..Len(lines) -> 1..Len(paras)] :
    /\ \A k \in 1..Len(lines) : Infix(lines[k], paras[f[k]])
    /\ \A k \in 1..(Len(lines) - 1) : f[k] <= f[k + 1]
    /\ \A j \in 1..Len(paras) : \E k \in 1..Len(lines) : f[k] = j

\* C17: line breaks are hard paragraph breaks: at every candidate size at
\* which computeLines returns lines, each line lies within one paragraph,
\* there are at least as many lines as non-empty paragraphs, an empty
\* paragraph gives no line, and paragraphs that each fit on a line are
\* returned one per line, never merged.
C17_HardParagraphBreaks ==
  lpc = "done" =>
    \A s \in CandidateRange :
      LET lines == computeLines(ltext, s, lbox.w)
          paras == ParagraphSeq(ltext)
      IN lines # <<>> =>
           /\ Len(lines) >= Len(paras)
           /\ LinesFollowParagraphs(lines, paras)
           /\ (\A j \in 1..Len(paras) : MeasureText(paras[j], s) <= lbox.w)
                => lines = paras

C17_Witness ==
  /\ lpc = "done"
  /\ ltext = <<"a", NL, NL, "a">>
  /\ lbox.w = 2500
  /\ ~lfit.fallback
  /\ lfit.finalLines = << <<"a">>, <<"a">> >>
  /\ MeasureText(<<"a", SP, "a">>, lfit.fontSize) <= lbox.w

\* the concatenation of a sequence of sequences
RECURSIVE ConcatAll(_)
ConcatAll(ss) ==
  IF ss = <<>> THEN <<>> ELSE Head(ss) \o ConcatAll(Tail(ss))

\* a line split back into tokens, the way its paragraph was split
Resplit(line, paragraph) ==
  IF Includes(paragraph, SP) THEN Split(line, SP) ELSE SplitChars(line)

\* the lines, each re-split as a line of the paragraph f assigns it to,
\* give the tokens of the paragraphs in order
RoundTrip(lines, paras) ==
  \E f \in [1..Len(lines) -> 1..Len(paras)] :
    /\ \A k \in 1..(Len(lines) - 1) : f[k] <= f[k + 1]
    /\ \A k \in 1..Len(lines) : Infix(lines[k], paras[f[k]])
    /\ ConcatAll([k \in 1..Len(lines) |-> Resplit(lines[k], paras[f[k]])])
         = ConcatAll([j \in 1..Len(paras) |-> Tokens(paras[j])])

\* C18: wrapping loses nothing: at every candidate size at which
\* computeLines returns lines, re-splitting each line into tokens and
\* concatenating them in order gives exactly the tokens of the non-empty
\* paragraphs of the text.
C18_WrappingLosesNothing ==
  lpc = "done" =>
    \A s \in CandidateRange :
      LET lines == computeLines(ltext, s, lbox.w)
      IN lines # <<>> => RoundTrip(lines, ParagraphSeq(ltext))

C18_Witness ==
  /\ lpc = "done"
  /\ ltext = <<"a", SP, "W">>
  /\ lbox.w = 1300
  /\ ~lfit.fallback
  /\ lfit.finalLines = << <<"a">>, <<"W">> >>
  /\ Tokens(ltext) = << <<"a">>, <<"W">> >>

\* ------------------------------------------------------------------------
\* Interleavings of upload, click, response and timer (checked under SpecApp)
\* ------------------------------------------------------------------------
\* the timer t fires in this step
Fires(t) == t \in timers /\ timers' = timers \ {t} /\ pc' = "call"

\* C19: the annotations a reconstruction applies were produced from the
\* image the canvases hold when it runs, never from a previously loaded
\* one, and at most one analyzeImage call is in flight at a time.
C19_AnnotationsMatchImage ==
  [][/\ \A t \in timers : (Fires(t) /\ hasCtx) => t.src = origImage
     /\ Cardinality(calls') <= 1]_vars

\* ------------------------------------------------------------------------
\* Progress of a Translate run (checked under SpecAppFair)
\* ------------------------------------------------------------------------
\* C20: every Translate run leaves the processing stages: once the stage is
\* ANALYZING, and given that the call settles and the timer fires, the
\* stage eventually becomes COMPLETED or ERROR.
C20_RunLeavesProcessing ==
  (stage = "ANALYZING") ~> (stage \in {"COMPLETED", "ERROR"})

====
